---- MODULE Spec2Model ----
(***************************************************************************)
(* A model of pyBLS/BlsData.py: the BlsData object, which fetches series   *)
(* from the BLS API, merges them into one table keyed by (year, period),   *)
(* derives a date index from the period code, resolves a location name     *)
(* for every series identifier and draws charts from the table.            *)
(*                                                                         *)
(* Python strings are sequences of one-character strings, so that          *)
(* slicing, str.replace, the regular expressions and the date parsers are  *)
(* computed on the characters as the code computes them.                   *)
(***************************************************************************)
EXTENDS Integers, Sequences, FiniteSets, TLC

VARIABLES pc, pandas, series_id_list, raw_data, merged, df, locations,
          error, error_at, files, reload, plot

vars == <<pc, pandas, series_id_list, raw_data, merged, df, locations,
          error, error_at, files, reload, plot>>

(***************************************************************************)
(* Characters and strings                                                  *)
(***************************************************************************)
Digits == <<"0", "1", "2", "3", "4", "5", "6", "7", "8", "9">>

Upper == <<"A", "B", "C", "D", "E", "F", "G", "H", "I", "J", "K", "L", "M",
           "N", "O", "P", "Q", "R", "S", "T", "U", "V", "W", "X", "Y", "Z">>

\* code-point order of the characters that occur: '-' < digits < letters < '|'
Alphabet == <<"-">> \o Digits \o Upper \o <<"|">>

Range(s) == {s[i] : i \in DOMAIN s}

IsDigit(c) == c \in Range(Digits)

IsUpper(c) == c \in Range(Upper)

Ord(c) == CHOOSE i \in DOMAIN Alphabet : Alphabet[i] = c

DigitVal(c) == (CHOOSE i \in DOMAIN Digits : Digits[i] = c) - 1

\* int() of a string of digits
RECURSIVE ToInt(_)
ToInt(s) ==
    IF s = <<>> THEN 0
    ELSE 10 * ToInt(SubSeq(s, 1, Len(s) - 1)) + DigitVal(s[Len(s)])

AllDigits(s) == \A i \in DOMAIN s : IsDigit(s[i])

\* Python's s[a:b] with 0 <= a <= b, clipped to the length of s
Slice(s, a, b) == SubSeq(s, a + 1, IF b < Len(s) THEN b ELSE Len(s))

\* str.replace(c, '') for a one-character c
Remove(s, c) == SelectSeq(s, LAMBDA x : x # c)

\* Python's < on strings
RECURSIVE StrLess(_, _)
StrLess(a, b) ==
    IF b = <<>> THEN FALSE
    ELSE IF a = <<>> THEN TRUE
    ELSE IF a[1] # b[1] THEN Ord(a[1]) < Ord(b[1])
    ELSE StrLess(Tail(a), Tail(b))

Ok(v) == [ok |-> TRUE, err |-> "none", val |-> v]

Raise(e) == [ok |-> FALSE, err |-> e, val |-> <<>>]

(***************************************************************************)
(* Tables (pandas DataFrames)                                              *)
(***************************************************************************)
YEAR == <<"y", "e", "a", "r">>

PERIOD == <<"p", "e", "r", "i", "o", "d">>

\* the cell of a numeric column: <<n>>, or <<>> when it is empty (NaN)
NaN == <<>>

cols == <<YEAR, PERIOD>>

\* pd.DataFrame(columns=cols)
EmptyFrame == [columns |-> cols, rows |-> <<>>]

NoFrame == [columns |-> <<>>, rows |-> <<>>]

KeyOf(row) == <<row.year, row.period>>

KeyLess(j, k) == StrLess(j[1], k[1]) \/ (j[1] = k[1] /\ StrLess(j[2], k[2]))

(***************************************************************************)
(* _construct_df: one frame per series, outer-merged on (year, period)     *)
(***************************************************************************)
\* pd.to_numeric on one value: digits parse, anything else (the API's "-"
\* for a value that is not available) raises ValueError
IsNumeric(s) == s # <<>> /\ AllDigits(s)

to_numeric(s) == <<ToInt(s)>>

SeriesRow(o, id) ==
    [year |-> o.year, period |-> o.period, val |-> (id :> to_numeric(o.value))]

\* lines 88-91: the frame of one series, its value column named by seriesID.
\* A series without observations has no columns, so selecting them raises.
SeriesFrame(bls_series) ==
    IF bls_series.data = <<>> THEN Raise("KeyError")
    ELSE IF \E i \in DOMAIN bls_series.data :
                ~IsNumeric(bls_series.data[i].value)
    THEN Raise("ValueError")
    ELSE Ok([columns |-> cols \o <<bls_series.seriesID>>,
             rows |-> [i \in DOMAIN bls_series.data |->
                         SeriesRow(bls_series.data[i], bls_series.seriesID)]])

ValueColumns(frame) == SubSeq(frame.columns, Len(cols) + 1, Len(frame.columns))

Keys(frame) == {KeyOf(frame.rows[i]) : i \in DOMAIN frame.rows}

RowAt(frame, k) ==
    frame.rows[CHOOSE i \in DOMAIN frame.rows : KeyOf(frame.rows[i]) = k]

\* the cells of frame's value columns in the merged row of key k
CellsAt(frame, k) ==
    IF k \in Keys(frame) THEN RowAt(frame, k).val
    ELSE [c \in Range(ValueColumns(frame)) |-> NaN]

RECURSIVE InsertByKey(_, _)
InsertByKey(row, sorted) ==
    IF sorted = <<>> THEN <<row>>
    ELSE IF KeyLess(KeyOf(row), KeyOf(sorted[1])) THEN <<row>> \o sorted
    ELSE <<sorted[1]>> \o InsertByKey(row, Tail(sorted))

RECURSIVE SortByKey(_)
SortByKey(rows) ==
    IF rows = <<>> THEN <<>>
    ELSE InsertByKey(rows[Len(rows)], SortByKey(SubSeq(rows, 1, Len(rows) - 1)))

\* a left join: the keys of the left frame only
JoinKeysLeft(left, right) == [i \in DOMAIN left.rows |-> KeyOf(left.rows[i])]

\* the keys of the outer join in order of first appearance: left, then the
\* keys only the right frame has
JoinKeys(left, right) ==
    [i \in DOMAIN left.rows |-> KeyOf(left.rows[i])]
    \o
    [i \in DOMAIN SelectSeq(right.rows, LAMBDA r : KeyOf(r) \notin Keys(left)) |->
        KeyOf(SelectSeq(right.rows, LAMBDA r : KeyOf(r) \notin Keys(left))[i])]

\* line 92: df.merge(right=series_df, on=['year', 'period'], how='outer').
\* Each frame holds a key at most once.  The rows come sorted by key where
\* sorted is TRUE (pandas sorts an outer join's keys) and in order of first
\* appearance where it is FALSE (older pandas under sort=False).
merge(left, right, sorted) ==
    LET keys   == JoinKeys(left, right)
        joined == [i \in DOMAIN keys |->
                     [year |-> keys[i][1], period |-> keys[i][2],
                      val |-> CellsAt(left, keys[i]) @@ CellsAt(right, keys[i])]]
    IN  [columns |-> left.columns \o ValueColumns(right),
         rows |-> IF sorted THEN SortByKey(joined) ELSE joined]

\* lines 83-92: the loop over self.raw_data, from the empty frame
RECURSIVE MergeAll(_, _)
MergeAll(raw, sorted) ==
    IF raw = <<>> THEN Ok(EmptyFrame)
    ELSE LET acc       == MergeAll(SubSeq(raw, 1, Len(raw) - 1), sorted)
             series_df == SeriesFrame(raw[Len(raw)])
         IN  IF ~acc.ok THEN acc
             ELSE IF ~series_df.ok THEN series_df
             ELSE Ok(merge(acc.val, series_df.val, sorted))

(***************************************************************************)
(* organize_df: the date index, derived from the first row's period code   *)
(***************************************************************************)
\* a pandas Timestamp at the first day of a month
Timestamp(y, m) == [kind |-> "Timestamp", year |-> y, month |-> m, str |-> <<>>]

\* an index key that is the year column's string itself
YearKey(s) == [kind |-> "str", year |-> 0, month |-> 0, str |-> s]

NoDate == [kind |-> "none", year |-> 0, month |-> 0, str |-> <<>>]

\* the first month of quarter q
QuarterStart(q) == 3 * (q - 1) + 1

IsMonth(n) == n >= 1 /\ n <= 12

\* line 106: pd.to_datetime without a format, on "<year>-<period>".
\* "2020-Q1" .. "2020-Q4" are quarters.  "2021-M3" is no date format: the
\* fallback parser either rejects it or skips the letter and reads year and
\* month, depending on the parser (lenient).  Anything else is rejected.
to_datetime(s, lenient) ==
    IF Len(s) >= 7 /\ AllDigits(SubSeq(s, 1, 4)) /\ s[5] = "-"
    THEN LET y    == ToInt(SubSeq(s, 1, 4))
             rest == SubSeq(s, 7, Len(s))
         IN  IF s[6] = "Q" /\ Len(rest) = 1 /\ rest[1] \in {"1", "2", "3", "4"}
             THEN Ok(Timestamp(y, QuarterStart(ToInt(rest))))
             ELSE IF s[6] = "M" /\ AllDigits(rest) /\ IsMonth(ToInt(rest)) /\ lenient
             THEN Ok(Timestamp(y, ToInt(rest)))
             ELSE Raise("ValueError")
    ELSE Raise("ValueError")

\* line 112: pd.to_datetime(..., format='%m-%Y') on "<period>-<year>"
to_datetime_mY(s) ==
    LET dash == IF \E i \in DOMAIN s : s[i] = "-"
                THEN CHOOSE i \in DOMAIN s : s[i] = "-" /\ \A j \in 1..(i - 1) : s[j] # "-"
                ELSE 0
        mm   == SubSeq(s, 1, dash - 1)
        yyyy == SubSeq(s, dash + 1, Len(s))
    IN  IF dash \in {2, 3} /\ AllDigits(mm) /\ IsMonth(ToInt(mm))
           /\ Len(yyyy) = 4 /\ AllDigits(yyyy)
        THEN Ok(Timestamp(ToInt(yyyy), ToInt(mm)))
        ELSE Raise("ValueError")

\* df.loc[0]['period'][0]
FirstPeriodChar(rows) == rows[1].period[1]

\* the quarterly branch without the str.replace of line 104
QuarterlyKeepsZero(st, lenient) ==
    IF ~st.ok \/ FirstPeriodChar(st.val) # "Q" THEN st
    ELSE LET parsed == [i \in DOMAIN st.val |->
                          to_datetime(st.val[i].year \o <<"-">> \o st.val[i].period,
                                      lenient)]
         IN  IF \E i \in DOMAIN parsed : ~parsed[i].ok THEN Raise("ValueError")
             ELSE Ok([i \in DOMAIN st.val |->
                        [st.val[i] EXCEPT !.date = parsed[i].val]])

\* lines 103-106: the quarterly branch
Quarterly(st, lenient) ==
    IF ~st.ok \/ FirstPeriodChar(st.val) # "Q" THEN st
    ELSE LET stripped == [i \in DOMAIN st.val |->
                            [st.val[i] EXCEPT !.period = Remove(@, "0")]]
             parsed   == [i \in DOMAIN stripped |->
                            to_datetime(stripped[i].year \o <<"-">> \o stripped[i].period,
                                        lenient)]
         IN  IF \E i \in DOMAIN parsed : ~parsed[i].ok THEN Raise("ValueError")
             ELSE Ok([i \in DOMAIN stripped |->
                        [stripped[i] EXCEPT !.date = parsed[i].val]])

\* lines 109-112: the monthly branch
Monthly(st) ==
    IF ~st.ok \/ FirstPeriodChar(st.val) # "M" THEN st
    ELSE LET stripped == [i \in DOMAIN st.val |->
                            [st.val[i] EXCEPT !.period = Remove(@, "M")]]
             parsed   == [i \in DOMAIN stripped |->
                            to_datetime_mY(stripped[i].period \o <<"-">> \o stripped[i].year)]
         IN  IF \E i \in DOMAIN parsed : ~parsed[i].ok THEN Raise("ValueError")
             ELSE Ok([i \in DOMAIN stripped |->
                        [stripped[i] EXCEPT !.date = parsed[i].val]])

\* lines 115-116: the annual branch renames the year column to date
Annual(st) ==
    IF ~st.ok \/ FirstPeriodChar(st.val) # "A" THEN st
    ELSE Ok([i \in DOMAIN st.val |->
               [st.val[i] EXCEPT !.date = YearKey(st.val[i].year)]])

DateLess(a, b) ==
    IF a.kind = "Timestamp"
    THEN a.year < b.year \/ (a.year = b.year /\ a.month < b.month)
    ELSE StrLess(a.str, b.str)

RECURSIVE InsertByDate(_, _)
InsertByDate(row, sorted) ==
    IF sorted = <<>> THEN <<row>>
    ELSE IF DateLess(row.date, sorted[1].date) THEN <<row>> \o sorted
    ELSE <<sorted[1]>> \o InsertByDate(row, Tail(sorted))

\* the rows left in the order of the merge
Unsorted(rows) == rows

\* line 120: df.sort_index()
RECURSIVE sort_index(_)
sort_index(rows) ==
    IF rows = <<>> THEN <<>>
    ELSE InsertByDate(rows[Len(rows)], sort_index(SubSeq(rows, 1, Len(rows) - 1)))

\* lines 119-123: date becomes the index, rows are sorted by it, and the
\* period and year columns are dropped.  Without a date column (no branch
\* ran) set_index raises.
IndexAndSort(frame, st) ==
    IF ~st.ok THEN Raise(st.err)
    ELSE IF st.val[1].date = NoDate THEN Raise("KeyError")
    ELSE Ok([columns |-> ValueColumns(frame),
             rows |-> [i \in DOMAIN st.val |->
                         [date |-> sort_index(st.val)[i].date,
                          val |-> sort_index(st.val)[i].val]]])

\* lines 103-125, for a frame that has a row 0
OrganizeRows(frame, lenient) ==
    LET start == Ok([i \in DOMAIN frame.rows |->
                       [year |-> frame.rows[i].year,
                        period |-> frame.rows[i].period,
                        val |-> frame.rows[i].val,
                        date |-> NoDate]])
    IN  IndexAndSort(frame, Annual(Monthly(Quarterly(start, lenient))))

\* organize_df returning an empty frame as it came
OrganizeOrSkip(frame, lenient) ==
    IF frame.rows = <<>> THEN Ok(frame) ELSE OrganizeRows(frame, lenient)

\* lines 96-125.  An empty frame has no row 0 to inspect: df.loc[0] raises.
organize_df(frame, lenient) ==
    IF frame.rows = <<>> THEN Raise("KeyError") ELSE OrganizeRows(frame, lenient)

\* lines 76-94: merged is the frame handed to organize_df at line 94
construct_df(raw, build) ==
    LET m == MergeAll(raw, build.sort)
        o == organize_df(m.val, build.lenient)
    IN  IF ~m.ok THEN [ok |-> FALSE, err |-> m.err, merged |-> NoFrame, df |-> NoFrame]
        ELSE IF ~o.ok THEN [ok |-> FALSE, err |-> o.err, merged |-> m.val, df |-> NoFrame]
        ELSE [ok |-> TRUE, err |-> "none", merged |-> m.val, df |-> o.val]

(***************************************************************************)
(* Inputs: series identifiers and API responses                            *)
(***************************************************************************)
\* "ENU0400110010"
EN_AZ ==
    <<"E", "N", "U", "0", "4", "0", "0", "1", "1", "0", "0", "1", "0">>

\* "ENUUS00010010"
EN_US ==
    <<"E", "N", "U", "U", "S", "0", "0", "0", "1", "0", "0", "1", "0">>

\* "ENU9999910010"
EN_XX ==
    <<"E", "N", "U", "9", "9", "9", "9", "9", "1", "0", "0", "1", "0">>

\* "LAUCN040010000000003"
LA_AZ ==
    <<"L", "A", "U", "C", "N", "0", "4", "0", "0", "1",
      "0", "0", "0", "0", "0", "0", "0", "0", "0", "3">>

\* "OEUM001018000000000000001"
OE_TX ==
    <<"O", "E", "U", "M", "0", "0", "1", "0", "1", "8", "0", "0", "0",
      "0", "0", "0", "0", "0", "0", "0", "0", "0", "0", "0", "1">>

\* "OEUM999999900000000000001"
OE_XX ==
    <<"O", "E", "U", "M", "9", "9", "9", "9", "9", "9", "9", "0", "0",
      "0", "0", "0", "0", "0", "0", "0", "0", "0", "0", "0", "1">>

\* "LNS14000000"
LNS ==
    <<"L", "N", "S", "1", "4", "0", "0", "0", "0", "0", "0">>

\* "CUUR0000SA0"
CUUR ==
    <<"C", "U", "U", "R", "0", "0", "0", "0", "S", "A", "0">>

\* "ENU04"
EN_BAD ==
    <<"E", "N", "U", "0", "4">>

\* the (year, period) keys the sample observations carry
SampleKeys == <<
    <<<<"2", "0", "2", "0">>, <<"Q", "0", "1">>>>,
    <<<<"2", "0", "2", "0">>, <<"Q", "0", "4">>>>,
    <<<<"2", "0", "2", "1">>, <<"M", "0", "3">>>>,
    <<<<"2", "0", "2", "0">>, <<"M", "1", "0">>>>,
    <<<<"2", "0", "1", "9">>, <<"A", "0", "1">>>>,
    <<<<"2", "0", "2", "0">>, <<"A", "0", "1">>>> >>

\* the series of a table-building response, by position
SampleIds == <<EN_AZ, LA_AZ, OE_TX, EN_US>>

\* at most MaxSeries series in a response
MaxSeries == 2

\* at most MaxObs observations in a response, over all its series
MaxObs == 3

\* the value series n reports for key k: the two digits n, k
Observation(n, k) ==
    [year |-> SampleKeys[k][1], period |-> SampleKeys[k][2],
     value |-> <<Digits[n + 1], Digits[k + 1]>>]

Injective(f) == \A i, j \in DOMAIN f : f[i] = f[j] => i = j

\* the sequences of at most n keys, none twice: a series reports a key once
KeySeqs(n) ==
    UNION {{f \in [1..m -> DOMAIN SampleKeys] : Injective(f)} : m \in 0..n}

\* the responses of exactly n series with at most budget observations
RECURSIVE Responses(_, _)
Responses(n, budget) ==
    IF n = 0 THEN {<<>>}
    ELSE UNION {{Append(r, [seriesID |-> SampleIds[n],
                            data |-> [i \in DOMAIN ks |-> Observation(n, ks[i])]]) :
                   r \in Responses(n - 1, budget - Len(ks))} :
                ks \in KeySeqs(budget)}

RawDatas == UNION {Responses(n, MaxObs) : n \in 0..MaxSeries}

Builds == [sort : BOOLEAN, lenient : BOOLEAN]

\* a Python argument value: its type and, for a container or string, its
\* items (a dict's items are a function from key to value)
None == [type |-> "NoneType", items |-> <<>>]

Dict(f) == [type |-> "dict", items |-> f]

List(q) == [type |-> "list", items |-> q]

Str(q) == [type |-> "str", items |-> q]

\* bool(v): None and empty containers are false
Truthy(v) == v.type # "NoneType" /\ DOMAIN v.items # {}

NoCall == [graph_type |-> "none", clean_names |-> FALSE,
           custom_column_names |-> None, transpose |-> FALSE]

NoFigure == [kind |-> "none", labels |-> <<>>, transposed |-> FALSE,
             renames |-> 0, err |-> "none"]

\* no create_graph call made yet
NoPlot == [call |-> NoCall, result |-> NoFigure]

\* no second object constructed yet
NoReload == [via |-> "none", status |-> "none", df |-> NoFrame]

(***************************************************************************)
(* SpecDf: _construct_df applied to every sample response                  *)
(***************************************************************************)
InitDf ==
    /\ pc = "new"
    /\ pandas \in Builds
    /\ raw_data \in RawDatas
    /\ series_id_list = [i \in DOMAIN raw_data |-> raw_data[i].seriesID]
    /\ merged = NoFrame
    /\ df = NoFrame
    /\ locations = <<>>
    /\ error = "none"
    /\ error_at = 0
    /\ files = <<>>
    /\ reload = NoReload
    /\ plot = NoPlot

\* line 38: self.df = self._construct_df()
ConstructDf ==
    /\ pc = "new"
    /\ LET r == construct_df(raw_data, pandas)
       IN  /\ merged' = r.merged
           /\ df' = r.df
           /\ error' = r.err
           /\ pc' = IF r.ok THEN "built" ELSE "failed"
    /\ UNCHANGED <<pandas, series_id_list, raw_data, locations, error_at, files,
                   reload, plot>>

NextDf == ConstructDf

SpecDf == InitDf /\ [][NextDf]_vars

(***************************************************************************)
(* get_location: series identifier -> location name                        *)
(***************************************************************************)
\* line 14: the two reference tables, area code -> display name
\* ("04001", "US000" of the QCEW area titles; "0010180" of the OES areas)
\* "Apache County, Arizona"
ApacheCounty ==
    <<"A", "p", "a", "c", "h", "e", " ", "C", "o", "u", "n", "t", "y", ",", " ",
      "A", "r", "i", "z", "o", "n", "a">>

\* "U.S. TOTAL"
UsTotal == <<"U", ".", "S", ".", " ", "T", "O", "T", "A", "L">>

\* "Abilene, TX"
Abilene == <<"A", "b", "i", "l", "e", "n", "e", ",", " ", "T", "X">>

qcew_area_codes_df ==
    (<<"0", "4", "0", "0", "1">> :> ApacheCounty)
    @@ (<<"U", "S", "0", "0", "0">> :> UsTotal)

oes_area_codes_df ==
    (<<"0", "0", "1", "0", "1", "8", "0">> :> Abilene)

\* a lookup that labels an unknown code with the code itself
LocOrCode(table, area_code) ==
    IF area_code \in DOMAIN table THEN Ok(table[area_code]) ELSE Ok(area_code)

\* table.loc[area_code][column]: KeyError for a code the index lacks
loc(table, area_code) ==
    IF area_code \in DOMAIN table THEN Ok(table[area_code]) ELSE Raise("KeyError")

\* re.match('[EN|LA]', series[0:2]): a character class, so it matches when
\* the first character is one of E, N, |, L, A
MatchClassENLA(s) == s # <<>> /\ s[1] \in {"E", "N", "|", "L", "A"}

\* re.match('OE', series[0:2])
MatchOE(s) == Slice(s, 0, 2) = <<"O", "E">>

\* re.search('^[A-Z]{3}([\d|U][\d|S]\d\d\d)', series): group(1), or no match
SearchEN(s) ==
    IF /\ Len(s) >= 8
       /\ \A i \in 1..3 : IsUpper(s[i])
       /\ (IsDigit(s[4]) \/ s[4] \in {"|", "U"})
       /\ (IsDigit(s[5]) \/ s[5] \in {"|", "S"})
       /\ \A i \in 6..8 : IsDigit(s[i])
    THEN Ok(SubSeq(s, 4, 8))
    ELSE Raise("AttributeError")

\* re.search('^[A-Z]{5}(\d\d\d\d\d)', series): group(1), or no match
SearchLA(s) ==
    IF /\ Len(s) >= 10
       /\ \A i \in 1..5 : IsUpper(s[i])
       /\ \A i \in 6..10 : IsDigit(s[i])
    THEN Ok(SubSeq(s, 6, 10))
    ELSE Raise("AttributeError")

\* the length of the longest prefix of upper-case letters
RECURSIVE UpperPrefix(_)
UpperPrefix(s) ==
    IF s # <<>> /\ IsUpper(s[1]) THEN 1 + UpperPrefix(Tail(s)) ELSE 0

\* re.search('^[A-Z]*(\d\d\d\d\d\d\d)', series): group(1), or no match
SearchOE(s) ==
    LET n == UpperPrefix(s)
    IN  IF Len(s) >= n + 7 /\ \A i \in (n + 1)..(n + 7) : IsDigit(s[i])
        THEN Ok(SubSeq(s, n + 1, n + 7))
        ELSE Raise("AttributeError")

Unbound == <<"unbound">>

\* the state of the loop of lines 168-178: the dict built so far, the local
\* area_code (bound by an earlier iteration or not at all), and the
\* exception raised with the index of the identifier it was raised at
LoopStart == [map |-> <<>>, area_code |-> Unbound, err |-> "none", at |-> 0]

\* lines 170-175: the branch of the '[EN|LA]' match on identifier i
BranchENLA(st, series, i) ==
    IF ~MatchClassENLA(Slice(series, 0, 2)) THEN st
    ELSE LET two    == Slice(series, 0, 2)
             en     == IF two = <<"E", "N">> THEN SearchEN(series) ELSE Ok(st.area_code)
             la     == IF two = <<"L", "A">> THEN SearchLA(series) ELSE en
             looked == loc(qcew_area_codes_df, la.val)
         IN  IF ~la.ok THEN [st EXCEPT !.err = la.err, !.at = i]
             ELSE IF la.val = Unbound
             THEN [st EXCEPT !.err = "UnboundLocalError", !.at = i]
             ELSE IF ~looked.ok
             THEN [st EXCEPT !.area_code = la.val, !.err = looked.err, !.at = i]
             ELSE [st EXCEPT !.area_code = la.val,
                             !.map = (series :> looked.val) @@ @]

\* lines 176-178: the branch of the 'OE' match on identifier i
BranchOE(st, series, i) ==
    IF st.err # "none" \/ ~MatchOE(series) THEN st
    ELSE LET found  == SearchOE(series)
             looked == loc(oes_area_codes_df, found.val)
         IN  IF ~found.ok THEN [st EXCEPT !.err = found.err, !.at = i]
             ELSE IF ~looked.ok
             THEN [st EXCEPT !.area_code = found.val, !.err = looked.err, !.at = i]
             ELSE [st EXCEPT !.area_code = found.val,
                             !.map = (series :> looked.val) @@ @]

\* the loop over the first n identifiers of the list
RECURSIVE LocationLoop(_, _)
LocationLoop(ids, n) ==
    IF n = 0 THEN LoopStart
    ELSE LET before == LocationLoop(ids, n - 1)
         IN  IF before.err # "none" THEN before
             ELSE BranchOE(BranchENLA(before, ids[n], n), ids[n], n)

\* lines 162-180
get_location(ids) == LocationLoop(ids, Len(ids))

(***************************************************************************)
(* SpecLoc: get_location applied to every sample identifier list           *)
(***************************************************************************)
\* the identifiers a caller may ask for
SampleSeries == {EN_AZ, EN_US, EN_XX, EN_BAD, LA_AZ, OE_TX, OE_XX, LNS, CUUR}

\* at most MaxIds identifiers in series_id_list
MaxIds == 2

IdLists(pool) == UNION {[1..n -> pool] : n \in 0..MaxIds}

InitLoc ==
    /\ pc = "new"
    /\ pandas \in {[sort |-> TRUE, lenient |-> FALSE]}
    /\ series_id_list \in IdLists(SampleSeries)
    /\ raw_data = <<>>
    /\ merged = NoFrame
    /\ df = NoFrame
    /\ locations = <<>>
    /\ error = "none"
    /\ error_at = 0
    /\ files = <<>>
    /\ reload = NoReload
    /\ plot = NoPlot

\* line 39: self.locations = self.get_location(); the attribute is not
\* assigned when the call raises
GetLocation ==
    /\ pc = "new"
    /\ LET r == get_location(series_id_list)
       IN  /\ locations' = IF r.err = "none" THEN r.map ELSE locations
           /\ error' = r.err
           /\ error_at' = r.at
           /\ pc' = IF r.err = "none" THEN "located" ELSE "failed"
    /\ UNCHANGED <<pandas, series_id_list, raw_data, merged, df, files, reload, plot>>

NextLoc == GetLocation

SpecLoc == InitLoc /\ [][NextLoc]_vars

(***************************************************************************)
(* create_graph                                                            *)
(***************************************************************************)
\* df.rename(columns=mapper, errors="raise"): a new frame with the columns
\* relabelled, KeyError when the mapper names a column the frame lacks.
\* The rows keep their cells under the series identifier.
rename(frame, mapper) ==
    IF \E k \in DOMAIN mapper : k \notin Range(frame.columns)
    THEN Raise("KeyError")
    ELSE Ok([frame EXCEPT !.columns =
                [i \in DOMAIN @ |-> IF @[i] \in DOMAIN mapper THEN mapper[@[i]]
                                    ELSE @[i]]])

\* the call in progress: the frame being plotted, the renames attempted so
\* far, the exception raised
Plotting(frame) == [frame |-> frame, renames |-> 0, err |-> "none"]

\* lines 143-144: location names for the columns
LocationRename(st, self_locations, clean_names, custom_column_names) ==
    IF st.err # "none" \/ ~(clean_names /\ ~Truthy(custom_column_names)) THEN st
    ELSE LET r == rename(st.frame, self_locations)
         IN  IF r.ok THEN [st EXCEPT !.frame = r.val, !.renames = @ + 1]
             ELSE [st EXCEPT !.renames = @ + 1, !.err = r.err]

\* the type check made after the rename instead of before it
CustomRenameThenCheck(st, clean_names, custom_column_names) ==
    IF st.err # "none" \/ ~(clean_names /\ Truthy(custom_column_names)) THEN st
    ELSE IF custom_column_names.type # "dict"
    THEN [st EXCEPT !.renames = @ + 1, !.err = "TypeError"]
    ELSE LET r == rename(st.frame, custom_column_names.items)
         IN  IF r.ok THEN [st EXCEPT !.frame = r.val, !.renames = @ + 1]
             ELSE [st EXCEPT !.renames = @ + 1, !.err = r.err]

\* lines 147-150: caller-supplied names for the columns
CustomRename(st, clean_names, custom_column_names) ==
    IF st.err # "none" \/ ~(clean_names /\ Truthy(custom_column_names)) THEN st
    ELSE IF custom_column_names.type # "dict" THEN [st EXCEPT !.err = "TypeError"]
    ELSE LET r == rename(st.frame, custom_column_names.items)
         IN  IF r.ok THEN [st EXCEPT !.frame = r.val, !.renames = @ + 1]
             ELSE [st EXCEPT !.renames = @ + 1, !.err = r.err]

\* lines 153-160: what the call returns, a figure of the (transposed) frame
\* for 'line' and 'bar', None for any other graph_type
Figure(st, graph_type, transpose) ==
    [kind |-> IF st.err # "none" THEN "raised"
              ELSE IF graph_type \in {"line", "bar"} THEN graph_type
              ELSE "None",
     labels |-> IF st.err # "none" THEN <<>> ELSE st.frame.columns,
     transposed |-> st.err = "none" /\ transpose,
     renames |-> st.renames,
     err |-> st.err]

\* create_graph with the renames made in place (inplace=True) on self.df
create_graph_inplace(self_df, self_locations, graph_type, clean_names, custom_column_names, transpose) ==
    LET st == CustomRename(
                  LocationRename(Plotting(self_df), self_locations, clean_names,
                                 custom_column_names),
                  clean_names, custom_column_names)
    IN  [df |-> st.frame, locations |-> self_locations,
         result |-> Figure(st, graph_type, transpose)]

\* lines 127-160.  plotting_df starts as self.df itself; rename and
\* transpose return new frames, so self.df and self.locations are as before.
create_graph(self_df, self_locations, graph_type, clean_names, custom_column_names, transpose) ==
    LET st == CustomRename(
                  LocationRename(Plotting(self_df), self_locations, clean_names,
                                 custom_column_names),
                  clean_names, custom_column_names)
    IN  [df |-> self_df, locations |-> self_locations,
         result |-> Figure(st, graph_type, transpose)]

(***************************************************************************)
(* The raw data file and the constructor                                   *)
(***************************************************************************)
\* json.dump: a dict becomes an object, a sequence of (name, value) members
JsonObservation(o) ==
    <<<<"year", o.year>>, <<"period", o.period>>, <<"value", o.value>>>>

JsonSeries(r) ==
    <<<<"seriesID", r.seriesID>>,
      <<"data", [i \in DOMAIN r.data |-> JsonObservation(r.data[i])]>>>>

JsonDump(raw) == [i \in DOMAIN raw |-> JsonSeries(raw[i])]

\* json.load: the member of an object by name
Member(obj, name) == obj[CHOOSE i \in DOMAIN obj : obj[i][1] = name][2]

JsonLoad(text) ==
    [i \in DOMAIN text |->
        [seriesID |-> Member(text[i], "seriesID"),
         data |-> [j \in DOMAIN Member(text[i], "data") |->
                     [year |-> Member(Member(text[i], "data")[j], "year"),
                      period |-> Member(Member(text[i], "data")[j], "period"),
                      value |-> Member(Member(text[i], "data")[j], "value")]]]]

\* lines 60-67: _read_bls_file() opens the file named 'raw_data3_3.json'
read_bls_file(fs) ==
    IF "raw_data3_3.json" \in DOMAIN fs THEN Ok(JsonLoad(fs["raw_data3_3.json"]))
    ELSE Raise("FileNotFoundError")

\* lines 69-74: write_to_bls_file(raw_data, file_name) writes self.raw_data
\* to the file named "file_name", whatever its two arguments
write_to_bls_file(fs, self_raw_data, raw_data_arg, file_name) ==
    ("file_name" :> JsonDump(self_raw_data)) @@ fs

Failed(e, at) ==
    [ok |-> FALSE, err |-> e, at |-> at, raw_data |-> <<>>, merged |-> NoFrame,
     df |-> NoFrame, locations |-> <<>>]

\* lines 26-39.  response is what the API returns for the request of line 34.
\* Line 36 passes an argument to _read_bls_file, which takes none: TypeError.
BlsData(ids, raw_data_arg, response, build) ==
    IF ~(~Truthy(raw_data_arg) /\ ids # <<>>) THEN Failed("TypeError", 0)
    ELSE LET c == construct_df(response, build)
             g == get_location(ids)
         IN  IF ~c.ok THEN Failed(c.err, 0)
             ELSE IF g.err # "none" THEN Failed(g.err, g.at)
             ELSE [ok |-> TRUE, err |-> "none", at |-> 0, raw_data |-> response,
                   merged |-> c.merged, df |-> c.df, locations |-> g.map]

(***************************************************************************)
(* Spec: one BlsData object, from its construction on                      *)
(***************************************************************************)
\* the identifiers of the requests made
RequestSeries == {EN_AZ, CUUR}

\* series_id_list: None (the empty list stands for it, both are false) or a
\* list of identifiers, none twice
RequestLists == {ids \in IdLists(RequestSeries) : Injective(ids)}

\* what the API may report for the n-th series asked for: two quarters,
\* latest first; one quarter; no observation; a value that is not available
SeriesData(n) ==
    {<<Observation(n, 2), Observation(n, 1)>>,
     <<Observation(n, 1)>>,
     <<>>,
     <<[Observation(n, 1) EXCEPT !.value = <<"-">>]>>}

\* line 58: the series of the response, one for each identifier asked for
ApiResponses(ids) ==
    {[i \in DOMAIN ids |-> [seriesID |-> ids[i], data |-> d[i]]] :
        d \in {e \in [DOMAIN ids -> UNION {SeriesData(n) : n \in DOMAIN ids}] :
                  \A i \in DOMAIN ids : e[i] \in SeriesData(i)}}

\* "Custom"
CustomName == <<"C", "u", "s", "t", "o", "m">>

\* raw_data arguments: none, a file name, data already loaded
RawDataArgs == {None, Str(<<"f", ".", "j", "s", "o", "n">>), List(<<EN_AZ>>)}

\* custom_column_names arguments
CustomColumnNames ==
    {None, Dict(<<>>), Dict(EN_AZ :> CustomName), Dict(EN_XX :> CustomName),
     List(<<>>), List(<<CustomName>>), Str(CustomName)}

GraphTypes == {"line", "bar", "pie"}

FileNames == {"cache.json", "raw_data3_3.json"}

\* the working directory: empty, or holding an earlier capture under the
\* name _read_bls_file opens
Directories ==
    {<<>>,
     "raw_data3_3.json" :>
         JsonDump(<<[seriesID |-> EN_AZ,
                     data |-> <<Observation(1, 2), Observation(1, 1)>>]>>)}

Init ==
    /\ pc = "new"
    /\ pandas \in {b \in Builds : ~b.lenient}
    /\ series_id_list = <<>>
    /\ raw_data = <<>>
    /\ merged = NoFrame
    /\ df = NoFrame
    /\ locations = <<>>
    /\ error = "none"
    /\ error_at = 0
    /\ files \in Directories
    /\ reload = NoReload
    /\ plot = NoPlot

\* BlsData(series_id_list=ids, raw_data=raw_data_arg)
Construct ==
    /\ pc = "new"
    /\ \E ids \in RequestLists, raw_data_arg \in RawDataArgs :
         \E response \in ApiResponses(ids) :
            LET self == BlsData(ids, raw_data_arg, response, pandas)
            IN  /\ pc' = IF self.ok THEN "live" ELSE "failed"
                /\ series_id_list' = IF self.ok THEN ids ELSE <<>>
                /\ raw_data' = self.raw_data
                /\ merged' = self.merged
                /\ df' = self.df
                /\ locations' = self.locations
                /\ error' = self.err
                /\ error_at' = self.at
    /\ UNCHANGED <<pandas, files, reload, plot>>

\* self.write_to_bls_file(raw_data, file_name)
WriteToBlsFile ==
    /\ pc = "live"
    /\ \E raw_data_arg \in {raw_data}, file_name \in FileNames :
         files' = write_to_bls_file(files, raw_data, raw_data_arg, file_name)
    /\ UNCHANGED <<pc, pandas, series_id_list, raw_data, merged, df, locations,
                   error, error_at, reload, plot>>

\* BlsData(raw_data=...) on a file written before: a second object, whose
\* outcome is kept in reload
Reload ==
    /\ pc = "live"
    /\ "file_name" \in DOMAIN files
    /\ \E ids \in {<<>>, series_id_list}, raw_data_arg \in RawDataArgs \ {None} :
         LET other == BlsData(ids, raw_data_arg, <<>>, pandas)
         IN  reload' = [via |-> "__init__",
                        status |-> IF other.ok THEN "ok" ELSE other.err,
                        df |-> other.df]
    /\ UNCHANGED <<pc, pandas, series_id_list, raw_data, merged, df, locations,
                   error, error_at, files, plot>>

\* self._read_bls_file(), and the table of what it read
ReadBlsFile ==
    /\ pc = "live"
    /\ LET data  == read_bls_file(files)
           table == construct_df(data.val, pandas)
       IN  reload' = [via |-> "_read_bls_file",
                      status |-> IF ~data.ok THEN data.err
                                 ELSE IF ~table.ok THEN table.err ELSE "ok",
                      df |-> IF data.ok THEN table.df ELSE NoFrame]
    /\ UNCHANGED <<pc, pandas, series_id_list, raw_data, merged, df, locations,
                   error, error_at, files, plot>>

\* self.create_graph(title, graph_type, clean_names, custom_column_names,
\* transpose); plot keeps the call and what it returned or raised
CreateGraph ==
    /\ pc = "live"
    /\ \E graph_type \in GraphTypes, clean_names \in BOOLEAN,
          custom_column_names \in CustomColumnNames, transpose \in BOOLEAN :
         LET r == create_graph(df, locations, graph_type, clean_names,
                               custom_column_names, transpose)
         IN  /\ df' = r.df
             /\ locations' = r.locations
             /\ plot' = [call |-> [graph_type |-> graph_type,
                                   clean_names |-> clean_names,
                                   custom_column_names |-> custom_column_names,
                                   transpose |-> transpose],
                         result |-> r.result]
    /\ UNCHANGED <<pc, pandas, series_id_list, raw_data, merged, error, error_at,
                   files, reload>>

Next == Construct \/ WriteToBlsFile \/ Reload \/ ReadBlsFile \/ CreateGraph

Spec == Init /\ [][Next]_vars

(***************************************************************************)
(* Properties of _construct_df and organize_df, under SpecDf               *)
(***************************************************************************)
ReportedKeys(bls_series) ==
    {<<bls_series.data[j].year, bls_series.data[j].period>> :
        j \in DOMAIN bls_series.data}

AllKeys == UNION {ReportedKeys(raw_data[n]) : n \in DOMAIN raw_data}

\* _construct_df got as far as handing a merged frame to organize_df
Merged == pc # "new" /\ merged # NoFrame

C7_EmptyResultIsSkeleton ==
    (pc # "new" /\ raw_data = <<>>) =>
        /\ error = "none"
        /\ df = [columns |-> <<YEAR, PERIOD>>, rows |-> <<>>]

\* C7 amended: with no series supplied, the merged table is the empty table
\* of the two columns year and period, organize_df raises KeyError on it
\* (there is no row 0), and _construct_df returns no table.
C7_EmptyMergeThenKeyError ==
    (pc # "new" /\ raw_data = <<>>) =>
        /\ merged = [columns |-> <<YEAR, PERIOD>>, rows |-> <<>>]
        /\ pc = "failed"
        /\ error = "KeyError"
        /\ df = NoFrame

C7_Witness == pc = "failed" /\ raw_data = <<>> /\ merged.columns = <<YEAR, PERIOD>>

FirstLetters(raw) ==
    {raw[n].data[j].period[1] : <<n, j>> \in
        {<<n, j>> \in (DOMAIN raw) \X (1..MaxObs + 1) : j \in DOMAIN raw[n].data}}

\* every observation of the response has the same granularity
Homogeneous == Cardinality(FirstLetters(raw_data)) = 1

\* the date key that the claim gives the observation o
IsDateOf(date, o) ==
    LET y == ToInt(o.year)
        n == ToInt(SubSeq(o.period, 2, Len(o.period)))
    IN  CASE o.period[1] = "Q" ->
                 /\ date.kind = "Timestamp"
                 /\ date.year = y
                 /\ (date.month - 1) \div 3 + 1 = n
          [] o.period[1] = "M" ->
                 /\ date.kind = "Timestamp"
                 /\ date.year = y
                 /\ date.month = n
          [] o.period[1] = "A" ->
                 /\ date.kind = "str"
                 /\ date.str = o.year
                 /\ date.month = 0

\* C5: a table of one granularity is organized without error, has one row
\* per key, and every observation sits in a row dated by its own year and
\* period: quarter n of the year for Q0n, month mm of the year for Mmm, the
\* year alone for A01.
C5_RowsDatedByOwnPeriod ==
    (Merged /\ Homogeneous) =>
        /\ pc = "built"
        /\ Len(df.rows) = Cardinality(AllKeys)
        /\ \A n \in DOMAIN raw_data : \A j \in DOMAIN raw_data[n].data :
              \E i \in DOMAIN df.rows :
                 /\ IsDateOf(df.rows[i].date, raw_data[n].data[j])
                 /\ df.rows[i].val[raw_data[n].seriesID]
                        = <<ToInt(raw_data[n].data[j].value)>>

\* Q01 and Q04 of 2020 have become the rows of January and October 2020
C5_Witness ==
    /\ pc = "built"
    /\ Homogeneous
    /\ FirstLetters(raw_data) = {"Q"}
    /\ Len(df.rows) = 2
    /\ df.rows[1].date = [kind |-> "Timestamp", year |-> 2020, month |-> 1, str |-> <<>>]
    /\ df.rows[2].date = [kind |-> "Timestamp", year |-> 2020, month |-> 10, str |-> <<>>]

\* the merged table holds a row of another granularity than its first row
Mixed ==
    \E i \in DOMAIN merged.rows : merged.rows[i].period[1] # merged.rows[1].period[1]

\* C6 as stated: organize_df fails on a table of mixed granularity.
C6_MixedGranularityFails == (Merged /\ merged.rows # <<>> /\ Mixed) => pc = "failed"

DateLeq(a, b) ==
    IF a.kind = "Timestamp" THEN 12 * a.year + a.month <= 12 * b.year + b.month
    ELSE ToInt(a.str) <= ToInt(b.str)

\* C9: the rows of every table organize_df returns are in non-decreasing
\* order of the date key.
C9_SortedByDate ==
    pc = "built" =>
        \A i, j \in DOMAIN df.rows : i < j => DateLeq(df.rows[i].date, df.rows[j].date)

\* the merged table had a later date above an earlier one
C9_Witness ==
    /\ pc = "built"
    /\ Len(merged.rows) >= 2
    /\ merged.rows[1].year = merged.rows[2].year
    /\ merged.rows[1].period = <<"Q", "0", "4">>
    /\ merged.rows[2].period = <<"Q", "0", "1">>

(***************************************************************************)
(* Properties of get_location, under SpecLoc                               *)
(***************************************************************************)
Prefix(series) == SubSeq(series, 1, 2)

EN == <<"E", "N">>

LA == <<"L", "A">>

OE == <<"O", "E">>

\* C2 as stated: an identifier whose prefix is none of EN, LA, OE gets no
\* entry in the location map and raises no error.
C2_OtherPrefixesSkipped ==
    pc # "new" =>
        \A i \in DOMAIN series_id_list :
            Prefix(series_id_list[i]) \notin {EN, LA, OE} =>
                /\ series_id_list[i] \notin DOMAIN locations
                /\ error_at # i

\* the area code at its fixed position in an identifier of the three
\* families: characters 4-8 after EN?, 6-10 after LA???, 5-11 after OE??
EmbeddedCode(series) ==
    CASE Prefix(series) = EN -> SubSeq(series, 4, 8)
      [] Prefix(series) = LA -> SubSeq(series, 6, 10)
      [] Prefix(series) = OE -> SubSeq(series, 5, 11)

\* the identifier is long enough to hold its code
HasCode(series) ==
    /\ Prefix(series) \in {EN, LA, OE}
    /\ Len(series) >= (CASE Prefix(series) = EN -> 8
                         [] Prefix(series) = LA -> 10
                         [] Prefix(series) = OE -> 11)

ReferenceTable(series) ==
    IF Prefix(series) = OE THEN oes_area_codes_df ELSE qcew_area_codes_df

C3_ReloadYieldsSameTable ==
    reload.via = "__init__" => (reload.status = "ok" /\ reload.df = df)

Called == plot.call.graph_type # "none"

\* C4 as stated: a custom_column_names that is given and is not a dict is
\* rejected with TypeError before any rename, whatever the other arguments.
C4_NonDictRejected ==
    (Called /\ plot.call.custom_column_names.type \notin {"dict", "NoneType"}) =>
        (plot.result.err = "TypeError" /\ plot.result.renames = 0)

\* C4 amended: with clean_names true, a custom_column_names that is not a
\* dict and is not empty is rejected with TypeError before any rename.
C4_NonEmptyNonDictRejectedWhenCleaning ==
    (/\ Called
     /\ plot.call.clean_names
     /\ plot.call.custom_column_names.type \notin {"dict", "NoneType"}
     /\ DOMAIN plot.call.custom_column_names.items # {}) =>
        (plot.result.err = "TypeError" /\ plot.result.renames = 0)

C4_Witness ==
    /\ Called
    /\ plot.call.clean_names
    /\ plot.call.custom_column_names.type = "list"
    /\ plot.result.err = "TypeError"

\* C10: a create_graph call, returning or raising, leaves self.df and
\* self.locations as they were.  The steps of a constructed object that
\* write no file and construct no second object are the create_graph calls.
C10_GraphLeavesObject ==
    [][(pc = "live" /\ files' = files /\ reload' = reload)
          => (df' = df /\ locations' = locations)]_vars

\* a transposed line chart under location names, of a table that still has
\* its series identifiers as columns
C10_Witness ==
    /\ pc = "live"
    /\ plot.result.kind = "line"
    /\ plot.result.transposed
    /\ plot.result.renames = 1
    /\ plot.result.labels # df.columns
    /\ df.columns = series_id_list

====
